---- MODULE Spec2Model ----
(***************************************************************************)
(* Model of the csv2parquet conversion pipeline: the generic               *)
(* run<InputFormat, OutputFormat> of src/src/lib.rs and the legacy         *)
(* monolithic main of src/src/main.rs.  One run of the program is one      *)
(* behaviour: the options are parsed, the input is opened, the schema is   *)
(* resolved (override document or inference), optionally printed, the      *)
(* reader, the output file and the writer are constructed, batches are     *)
(* streamed from the reader to the writer, and the writer is closed.       *)
(***************************************************************************)
EXTENDS Integers, Sequences, FiniteSets, TLC

\* ---------------------------------------------------------------- bounds
MaxRows == 3
MaxCols == 2
MaxCap == 2
MaxSampleRows == 2
BatchSize == 1

\* ------------------------------------------------------- Option<T> values
None == <<>>
Some(v) == <<v>>
IsSome(o) == Len(o) = 1
Unwrap(o) == o[1]
UnwrapOr(o, d) == IF IsSome(o) THEN o[1] ELSE d

Min(a, b) == IF a < b THEN a ELSE b

\* ------------------------------------------------------------ input files
\* A cell of the input is abstracted to the kind of value it holds; a line
\* of the file is a tuple of cells; every line of one file has the same width.
CellKinds == {"int", "text"}

\* Files of every content, for schema inference.
InputFiles ==
    UNION { { [width |-> w, lines |-> ls] :
                ls \in UNION { [1..n -> [1..w -> CellKinds]] : n \in 0..MaxSampleRows } } :
            w \in 1..MaxCols }

\* Files of text cells, for the read/write loop, which sees of the content
\* of a file only how many batches it makes.
PlainFiles ==
    { [width |-> w, lines |-> [i \in 1..n |-> [c \in 1..w |-> "text"]]] :
        w \in 1..MaxCols, n \in 0..MaxRows }

NoInput == [width |-> 0, lines |-> <<>>]

\* A schema is the ordered list of its columns; a column has a name (its
\* position in the header) and an Arrow data type.
Field(c, t) == [name |-> c, type |-> t]

OverrideTypes == {"Int64", "Utf8"}

\* The schema documents a schema file may hold when it is valid.
SchemaDocs ==
    { [c \in 1..n |-> Field(c, t)] : n \in 1..MaxCols, t \in OverrideTypes }

\* What opening and parsing the schema file can give.
SchemaFileStates ==
    { [status |-> s, schema |-> <<>>] : s \in {"missing", "badjson", "badschema"} }
    \cup { [status |-> "ok", schema |-> d] : d \in SchemaDocs }

NoSchemaFile == [status |-> "unread", schema |-> <<>>]

\* ----------------------------------------------------------------- options
Entries == {"run", "main"}
Formats == {"csv", "json"}

\* Opts of lib.rs (generic over the input format) and of main.rs (CSV only).
OptsSet ==
    { [schema_file |-> sf, max_read_records |-> cap, header |-> h,
       print_schema |-> p, dry |-> d] :
        sf \in BOOLEAN,
        cap \in {None} \cup { Some(n) : n \in 0..MaxCap },
        h \in {None, Some(TRUE), Some(FALSE)},
        p \in BOOLEAN, d \in BOOLEAN }

NoOpts == [schema_file |-> FALSE, max_read_records |-> None, header |-> None,
           print_schema |-> FALSE, dry |-> FALSE]

VARIABLES
    pc,          \* position of the run in run()/main()
    entry,       \* which program runs: the generic run or the legacy main
    fmt,         \* the input format of the binary
    opts,        \* the parsed options
    input,       \* content of the opened input file
    schemaFile,  \* what reading the schema file gave
    schema,      \* the resolved schema
    inferArgs,   \* the max_read_records each call of inference received
    inferReads,  \* number of input lines read during schema resolution
    emitted,     \* the schema documents printed to stdout
    outputCreated, \* the output path was created or truncated
    wopts,       \* the writer options of the command line
    props,       \* the WriterProperties the writer was built with
    produced,    \* the batches pulled from the reader, in order
    written,     \* the batches passed to write, in order
    batchCols,   \* the number of columns of each batch produced, in order
    log,         \* the operations performed, in order
    result       \* the value returned by run()/main()

vars == <<pc, entry, fmt, opts, input, schemaFile, schema, inferArgs, inferReads,
          emitted, outputCreated, wopts, props, produced, written, batchCols,
          log, result>>


\* ---------------------------------------------------------- writer options
\* The options of ParquetOpts (lib.rs) and the writer options of main.rs.
\* statistics is Option<ParquetEnabledStatistics> in lib.rs and the plain
\* flag statistics_flag in main.rs; dictionary is a plain flag in both.
NoWriterOpts ==
    [compression |-> None, encoding |-> None, data_pagesize_limit |-> None,
     dictionary_pagesize_limit |-> None, write_batch_size |-> None,
     max_row_group_size |-> None, created_by |-> None, dictionary |-> FALSE,
     statistics |-> None, statistics_flag |-> FALSE, max_statistics_size |-> None]

AllWriterOpts(e) ==
    [compression |-> Some("SNAPPY"), encoding |-> Some("PLAIN"),
     data_pagesize_limit |-> Some(1), dictionary_pagesize_limit |-> Some(1),
     write_batch_size |-> Some(1), max_row_group_size |-> Some(1),
     created_by |-> Some("me"), dictionary |-> TRUE,
     statistics |-> IF e = "run" THEN Some("Chunk") ELSE None,
     statistics_flag |-> (e = "main"), max_statistics_size |-> Some(1)]

\* The command lines explored: no writer option, all of them, and two mixed.
WriterOptChoices(e) ==
    { NoWriterOpts,
      AllWriterOpts(e),
      [NoWriterOpts EXCEPT !.compression = Some("GZIP"), !.dictionary = TRUE],
      [AllWriterOpts(e) EXCEPT !.dictionary = FALSE, !.created_by = None,
                               !.dictionary_pagesize_limit = None] }

\* WriterProperties::builder(): every property is left to the library
\* (None) until a setter is called on it (Some(v)).
BuilderDefaults ==
    [dictionary_enabled |-> None, statistics_enabled |-> None, compression |-> None,
     encoding |-> None, write_batch_size |-> None, data_pagesize_limit |-> None,
     dictionary_pagesize_limit |-> None, max_row_group_size |-> None,
     created_by |-> None, max_statistics_size |-> None]

\* `if let Some(v) = opt { props = props.set_x(v) }`
SetIfSome(p, f, opt) == IF IsSome(opt) THEN [p EXCEPT ![f] = Some(Unwrap(opt))] ELSE p

\* The writer properties built by ParquetOpts::try_new_writer (e = "run")
\* and by main (e = "main"), setter by setter in the order of the code.
BuildProps(e, w) ==
    LET p0 == [BuilderDefaults EXCEPT !.dictionary_enabled = Some(w.dictionary)]
        p1 == IF e = "main"
              THEN [p0 EXCEPT !.statistics_enabled = Some(w.statistics_flag)]
              ELSE SetIfSome(p0, "statistics_enabled", w.statistics)
        p2 == SetIfSome(p1, "compression", w.compression)
        p3 == SetIfSome(p2, "encoding", w.encoding)
        p4 == SetIfSome(p3, "write_batch_size", w.write_batch_size)
        p5 == SetIfSome(p4, "data_pagesize_limit", w.data_pagesize_limit)
        p6 == SetIfSome(p5, "dictionary_pagesize_limit", w.dictionary_pagesize_limit)
        p7 == SetIfSome(p6, "dictionary_pagesize_limit", w.dictionary_pagesize_limit)
        p8 == SetIfSome(p7, "max_row_group_size", w.max_row_group_size)
        p9 == SetIfSome(p8, "created_by", w.created_by)
    IN  SetIfSome(p9, "max_statistics_size", w.max_statistics_size)

\* ------------------------------------------------------- schema inference
HasHeader(fm, o) == fm = "csv" /\ UnwrapOr(o.header, TRUE)

\* The data records of the file: all lines but the header line.
DataLines(in, hasHeader) ==
    IF hasHeader /\ Len(in.lines) > 0 THEN Tail(in.lines) ELSE in.lines

\* Number of records inference samples: all of them, or at most the cap.
SampleCount(cap, n) == IF IsSome(cap) THEN Min(Unwrap(cap), n) ELSE n

ArrowType(kind) == IF kind = "int" THEN "Int64" ELSE "Utf8"

\* The type of a column from the kinds of values sampled in it: the one
\* type seen, and Utf8 when none or several were seen.
ColumnType(kinds) ==
    IF Cardinality(kinds) = 1 THEN ArrowType(CHOOSE k \in kinds : TRUE) ELSE "Utf8"

SampledKinds(data, k, c) == { data[i][c] : i \in 1..k }

\* arrow::csv::reader::infer_file_schema as called by
\* CsvOpts::infer_file_schema: the columns are those of the first line.
InferCsv(in, cap, hasHeader) ==
    LET data == DataLines(in, hasHeader)
        k == SampleCount(cap, Len(data))
    IN  IF Len(in.lines) = 0 THEN <<>>
        ELSE [c \in 1..in.width |-> Field(c, ColumnType(SampledKinds(data, k, c)))]

\* arrow::json::reader::infer_json_schema_from_seekable as called by
\* JsonOpts::infer_file_schema: the columns are the fields of the sampled records.
InferJson(in, cap) ==
    LET k == SampleCount(cap, Len(in.lines))
    IN  IF k = 0 THEN <<>>
        ELSE [c \in 1..in.width |-> Field(c, ColumnType(SampledKinds(in.lines, k, c)))]

\* Mutant of InferenceCap: an absent cap is handed over as zero.
InferenceCap_OrZero(o) == Some(UnwrapOr(o.max_read_records, 0))

\* The max_read_records handed to the inference routine.
InferenceCap(o) == o.max_read_records

InferFileSchema(fm, o, in, cap) ==
    IF fm = "csv" THEN InferCsv(in, cap, HasHeader(fm, o)) ELSE InferJson(in, cap)

\* Lines of the input consumed by one call of inference.
InferLinesRead(fm, o, in, cap) ==
    LET h == IF HasHeader(fm, o) THEN 1 ELSE 0
        data == DataLines(in, HasHeader(fm, o))
        k == SampleCount(cap, Len(data))
    IN  IF fm = "csv"
        THEN (IF Len(in.lines) = 0 THEN 0 ELSE IF h + k = 0 THEN 1 ELSE h + k)
        ELSE k

\* schema.to_json(): the document printed for the schema.
SchemaToJson(s) == [fields |-> [c \in 1..Len(s) |-> [name |-> s[c].name,
                                                      data_type |-> s[c].type,
                                                      nullable |-> FALSE]]]

\* ------------------------------------------------------------- the reader
\* The reader yields the data records in batches of BatchSize records.
NumBatches(fm, o, in) ==
    LET n == Len(DataLines(in, HasHeader(fm, o)))
    IN  (n + BatchSize - 1) \div BatchSize

\* ----------------------------------------------------------------- errors
\* The error a failure at a site is returned as.  lib.rs returns ArrowError,
\* main.rs returns ParquetError.
ErrorKind(e, site) ==
    IF e = "run"
    THEN CASE site = "open_input"    -> "IoError"
           [] site = "open_schema"   -> "IoError"
           [] site = "read_schema"   -> "IoError"
           [] site = "parse_schema"  -> "ParseError"
           [] site = "infer"         -> "SchemaError"
           [] site = "make_reader"   -> "ReaderError"
           [] site = "create_output" -> "IoError"
           [] site = "new_writer"    -> "ParquetError"
           [] site = "next"          -> "ReaderError"
           [] site = "write"         -> "ParquetError"
           [] site = "close"         -> "ParquetError"
    ELSE CASE site = "open_input"    -> "General"
           [] site = "open_schema"   -> "General"
           [] site = "read_schema"   -> "General"
           [] site = "parse_schema"  -> "ArrowError"
           [] site = "infer"         -> "General"
           [] site = "make_reader"   -> "ArrowError"
           [] site = "create_output" -> "General"
           [] site = "new_writer"    -> "WriterError"
           [] site = "next"          -> "ArrowError"
           [] site = "write"         -> "WriterError"
           [] site = "close"         -> "WriterError"

Running == [status |-> "running", kind |-> "", site |-> ""]
Ok == [status |-> "ok", kind |-> "", site |-> ""]
Err(e, site) == [status |-> "err", kind |-> ErrorKind(e, site), site |-> site]

Call(op, ok) == [op |-> op, ok |-> ok]


\* ------------------------------------------------------------------ state
Init ==
    /\ pc = "parse"
    /\ entry \in Entries
    /\ fmt \in (IF entry = "main" THEN {"csv"} ELSE Formats)
    /\ opts = NoOpts
    /\ input = NoInput
    /\ schemaFile = NoSchemaFile
    /\ schema = <<>>
    /\ inferArgs = <<>>
    /\ inferReads = 0
    /\ emitted = <<>>
    /\ outputCreated = FALSE
    /\ wopts = NoWriterOpts
    /\ props = BuilderDefaults
    /\ produced = <<>>
    /\ written = <<>>
    /\ batchCols = <<>>
    /\ log = <<>>
    /\ result = Running

\* Mutant of Fail: the error is dropped and the run goes on where it was.
Fail_Continue(site) ==
    /\ result' = result
    /\ pc' = pc

\* `?` and `return Err(..)`: the error is the value of the run, which ends.
Fail(site) ==
    /\ result' = Err(entry, site)
    /\ pc' = "done"

\* `return Ok(())`
Succeed ==
    /\ result' = Ok
    /\ pc' = "done"

\* Mutant of PrintsSchema: the dry flag alone prints nothing.
PrintsSchema_FlagOnly(o) == o.print_schema

\* `if opts.print_schema || opts.dry`
PrintsSchema(o) == o.print_schema \/ o.dry

\* Mutant of ReturnsAfterSchema: a dry run goes on to the conversion.
ReturnsAfterSchema_Never(o) == FALSE

\* `if opts.dry { return Ok(()) }`
ReturnsAfterSchema(o) == o.dry

\* Mutant of UsesOverride: the schema is inferred whatever the options.
UsesOverride_Never(o) == FALSE

\* `match &opts.schema_file { Some(..) => .., _ => infer }`
UsesOverride(o) == o.schema_file

\* The batch the reader yields after those already produced.
NextBatch(prod) == Len(prod) + 1

\* Mutant of BatchColumns: the reader is not bound to the schema and its
\* batches have the columns of the lines of the file.
BatchColumns_OfFile(s, in) == in.width

\* `.with_schema(schema_ref)`: the reader is bound to the resolved schema
\* and its batches have the columns of that schema, whatever the width of
\* the lines of the file `in`.
BatchColumns(s, in) == Len(s)

\* writer.write(batch): the writer, bound to schema `s`, takes a batch of
\* `cols` columns only if those are the columns of its schema.
WriterAccepts(cols, s) == cols = Len(s)

\* Mutant of BatchToWrite: the first batch is written again and again.
BatchToWrite_First(prod) == prod[1]

\* The batch bound by `Ok(batch)` and handed to write.
BatchToWrite(prod) == prod[Len(prod)]

\* Mutant of CloseResult: the result of close is ignored.
CloseResult_Ignored(ok) == Ok

\* `match close(writer) { Ok(_) => Ok(()), Err(error) => Err(error) }`
CloseResult(ok) == IF ok THEN Ok ELSE Err(entry, "close")

\* ---------------------------------------------------------------- actions
\* Opts::parse(): the command line of this run, its writer options being
\* one of `choices`.  JsonOpts has no header option.
ParseLine(choices) ==
    /\ pc = "parse"
    /\ \E o \in OptsSet :
        /\ fmt = "json" => o.header = None
        /\ opts' = o
    /\ wopts' \in choices
    /\ pc' = "open_input"
    /\ log' = Append(log, Call("parse", TRUE))
    /\ UNCHANGED <<batchCols, entry, fmt, input, schemaFile, schema, inferArgs, inferReads,
                   emitted, outputCreated, props, produced, written, result>>

Parse == ParseLine(WriterOptChoices(entry))

ParseSampled == ParseLine({NoWriterOpts})

\* File::open(input)?, the file being one of `files`.
OpenFile(files) ==
    /\ pc = "open_input"
    /\ \/ /\ input' \in files
          /\ pc' = "resolve"
          /\ log' = Append(log, Call("open_input", TRUE))
          /\ UNCHANGED result
       \/ /\ Fail("open_input")
          /\ log' = Append(log, Call("open_input", FALSE))
          /\ UNCHANGED input
    /\ UNCHANGED <<batchCols, entry, fmt, opts, schemaFile, schema, inferArgs, inferReads,
                   emitted, outputCreated, wopts, props, produced, written>>

OpenInput == OpenFile(PlainFiles)

OpenInputSampled == OpenFile(InputFiles)

\* The site at which reading the schema file fails, "" when it does not.
SchemaFileFailure(sf) ==
    CASE sf.status = "missing"   -> "open_schema"
      [] sf.status = "badjson"   -> "read_schema"
      [] sf.status = "badschema" -> "parse_schema"
      [] OTHER                   -> ""

\* The calls made on the schema file up to and including the failing one.
SchemaFileCalls(sf) ==
    CASE sf.status = "missing"   -> <<Call("open_schema", FALSE)>>
      [] sf.status = "badjson"   -> <<Call("open_schema", TRUE), Call("read_schema", FALSE)>>
      [] sf.status = "badschema" -> <<Call("open_schema", TRUE), Call("read_schema", TRUE),
                                      Call("parse_schema", FALSE)>>
      [] OTHER                   -> <<Call("open_schema", TRUE), Call("read_schema", TRUE),
                                      Call("parse_schema", TRUE)>>

\* The Some(schema_def_file_path) arm: open the schema file, parse it as
\* JSON, convert the JSON to a Schema.
ResolveOverride ==
    /\ pc = "resolve"
    /\ UsesOverride(opts)
    /\ \E sf \in SchemaFileStates :
        /\ schemaFile' = sf
        /\ log' = log \o SchemaFileCalls(sf)
        /\ IF sf.status = "ok"
           THEN /\ schema' = sf.schema
                /\ pc' = "report"
                /\ UNCHANGED result
           ELSE /\ Fail(SchemaFileFailure(sf))
                /\ UNCHANGED schema
    /\ UNCHANGED <<batchCols, entry, fmt, opts, input, inferArgs, inferReads, emitted,
                   outputCreated, wopts, props, produced, written>>

\* The `_` arm: infer_file_schema(opts.max_read_records, &mut input).
ResolveInfer ==
    /\ pc = "resolve"
    /\ ~UsesOverride(opts)
    /\ inferArgs' = Append(inferArgs, InferenceCap(opts))
    /\ inferReads' = inferReads + InferLinesRead(fmt, opts, input, InferenceCap(opts))
    /\ \/ /\ schema' = InferFileSchema(fmt, opts, input, InferenceCap(opts))
          /\ pc' = "report"
          /\ log' = Append(log, Call("infer", TRUE))
          /\ UNCHANGED result
       \/ /\ Fail("infer")
          /\ log' = Append(log, Call("infer", FALSE))
          /\ UNCHANGED schema
    /\ UNCHANGED <<batchCols, entry, fmt, opts, input, schemaFile, emitted, outputCreated,
                   wopts, props, produced, written>>

\* Print the schema when asked to, and end the run there when it is dry.
Report ==
    /\ pc = "report"
    /\ IF PrintsSchema(opts)
       THEN /\ emitted' = Append(emitted, SchemaToJson(schema))
            /\ log' = Append(log, Call("emit", TRUE))
            /\ IF ReturnsAfterSchema(opts)
               THEN Succeed
               ELSE pc' = "make_reader" /\ UNCHANGED result
       ELSE /\ pc' = "make_reader"
            /\ UNCHANGED <<emitted, log, result>>
    /\ UNCHANGED <<batchCols, entry, fmt, opts, input, schemaFile, schema, inferArgs, inferReads,
                   outputCreated, wopts, props, produced, written>>

\* Mutant of MakeReader: the output file is created before the reader is built.
MakeReader_AfterCreate ==
    /\ pc = "make_reader"
    /\ outputCreated' = TRUE
    /\ \/ /\ pc' = "create_output"
          /\ log' = Append(log, Call("make_reader", TRUE))
          /\ UNCHANGED result
       \/ /\ Fail("make_reader")
          /\ log' = Append(log, Call("make_reader", FALSE))
    /\ UNCHANGED <<batchCols, entry, fmt, opts, input, schemaFile, schema, inferArgs,
                   inferReads, emitted, wopts, props, produced, written>>

\* opts.input_format.make_reader(schema_ref.clone(), input)?
MakeReader ==
    /\ pc = "make_reader"
    /\ \/ /\ pc' = "create_output"
          /\ log' = Append(log, Call("make_reader", TRUE))
          /\ UNCHANGED result
       \/ /\ Fail("make_reader")
          /\ log' = Append(log, Call("make_reader", FALSE))
    /\ UNCHANGED <<batchCols, entry, fmt, opts, input, schemaFile, schema, inferArgs, inferReads,
                   emitted, outputCreated, wopts, props, produced, written>>

\* File::create(opts.output)?
CreateOutput ==
    /\ pc = "create_output"
    /\ \/ /\ outputCreated' = TRUE
          /\ pc' = "new_writer"
          /\ log' = Append(log, Call("create_output", TRUE))
          /\ UNCHANGED result
       \/ /\ Fail("create_output")
          /\ log' = Append(log, Call("create_output", FALSE))
          /\ UNCHANGED outputCreated
    /\ UNCHANGED <<batchCols, entry, fmt, opts, input, schemaFile, schema, inferArgs, inferReads,
                   emitted, wopts, props, produced, written>>

\* try_new_writer(output, schema_ref)?: build the writer properties from
\* the options, then ArrowWriter::try_new.
NewWriter ==
    /\ pc = "new_writer"
    /\ props' = BuildProps(entry, wopts)
    /\ \/ /\ pc' = "next"
          /\ log' = Append(log, Call("new_writer", TRUE))
          /\ UNCHANGED result
       \/ /\ Fail("new_writer")
          /\ log' = Append(log, Call("new_writer", FALSE))
    /\ UNCHANGED <<batchCols, entry, fmt, opts, input, schemaFile, schema, inferArgs, inferReads,
                   emitted, outputCreated, wopts, produced, written>>

\* `for batch in reader`: pull the next element of the reader.
Next_ ==
    /\ pc = "next"
    /\ \/ /\ Len(produced) < NumBatches(fmt, opts, input)
          /\ produced' = Append(produced, NextBatch(produced))
          /\ batchCols' = Append(batchCols, BatchColumns(schema, input))
          /\ pc' = "write"
          /\ log' = Append(log, Call("next", TRUE))
          /\ UNCHANGED result
       \/ /\ Len(produced) < NumBatches(fmt, opts, input)
          /\ Fail("next")
          /\ log' = Append(log, Call("next", FALSE))
          /\ UNCHANGED <<produced, batchCols>>
       \/ /\ Len(produced) >= NumBatches(fmt, opts, input)
          /\ pc' = "close"
          /\ log' = Append(log, Call("end", TRUE))
          /\ UNCHANGED <<produced, batchCols, result>>
    /\ UNCHANGED <<entry, fmt, opts, input, schemaFile, schema, inferArgs, inferReads,
                   emitted, outputCreated, wopts, props, written>>

\* `Ok(batch) => write(&mut writer, &batch)?`
Write ==
    /\ pc = "write"
    /\ written' = Append(written, BatchToWrite(produced))
    /\ \/ /\ WriterAccepts(batchCols[Len(batchCols)], schema)
          /\ pc' = "next"
          /\ log' = Append(log, Call("write", TRUE))
          /\ UNCHANGED result
       \/ /\ Fail("write")
          /\ log' = Append(log, Call("write", FALSE))
    /\ UNCHANGED <<batchCols, entry, fmt, opts, input, schemaFile, schema, inferArgs, inferReads,
                   emitted, outputCreated, wopts, props, produced>>

\* close(writer), whose result is the result of the run.
Close ==
    /\ pc = "close"
    /\ \E ok \in BOOLEAN :
        /\ result' = CloseResult(ok)
        /\ log' = Append(log, Call("close", ok))
    /\ pc' = "done"
    /\ UNCHANGED <<batchCols, entry, fmt, opts, input, schemaFile, schema, inferArgs, inferReads,
                   emitted, outputCreated, wopts, props, produced, written>>

Next ==
    \/ Parse
    \/ OpenInput
    \/ ResolveOverride
    \/ ResolveInfer
    \/ Report
    \/ MakeReader
    \/ CreateOutput
    \/ NewWriter
    \/ Next_
    \/ Write
    \/ Close

Spec == Init /\ [][Next]_vars

\* Schema resolution alone, up to the printing of the schema, over input
\* files of every content.
NextResolve ==
    \/ ParseSampled
    \/ OpenInputSampled
    \/ ResolveOverride
    \/ ResolveInfer
    \/ Report

SpecResolve == Init /\ [][NextResolve]_vars


\* ----------------------------------------------------------- properties
Done == pc = "done"

\* The positions of the log at which `op` was called.
Calls(op) == { i \in 1..Len(log) : log[i].op = op }

Happened(op) == \E i \in 1..Len(log) : log[i] = Call(op, TRUE)

WriterOpened == Happened("new_writer")

Resolved == Happened("infer") \/ Happened("parse_schema")

\* The batches of the input, in the order the reader yields them.
AllBatches == [i \in 1..NumBatches(fmt, opts, input) |-> i]

IsPrefix(s, t) == Len(s) <= Len(t) /\ \A i \in 1..Len(s) : s[i] = t[i]

OutputSteps == {"create_output", "new_writer", "next", "end", "write", "close"}

\* C1: in a run with the dry flag set the output path is never created or
\* truncated, and no step from the creation of the output file on is
\* reached, in run() and in main(), whether resolution succeeds or fails.
C1_DryRunLeavesOutputAlone ==
    opts.dry =>
        /\ ~outputCreated
        /\ \A i \in 1..Len(log) : log[i].op \notin OutputSteps
        /\ pc \notin {"create_output", "new_writer", "next", "write", "close"}

C1_Witness ==
    /\ opts.dry
    /\ Done
    /\ result = Ok
    /\ Resolved

\* C2 (as claimed): in every run that opened a writer, close is called on
\* it exactly once and is the last operation on it.
C2_ClosedExactlyOnce ==
    (Done /\ WriterOpened) =>
        /\ Cardinality(Calls("close")) = 1
        /\ log[Len(log)].op = "close"

\* C3: the batches passed to write are at every point a prefix, in the same
\* order, of the batches the reader produced, which are a prefix of the
\* batches of the input; at most the batch just pulled is not yet written;
\* when the reader is exhausted without error both are all the batches.
C3_WrittenInOrder ==
    /\ IsPrefix(written, produced)
    /\ IsPrefix(produced, AllBatches)
    /\ Len(produced) - Len(written) \in {0, 1}
    /\ pc = "write" <=> Len(produced) = Len(written) + 1
    /\ Happened("end") => written = AllBatches /\ produced = AllBatches

C3_Witness ==
    /\ Happened("end")
    /\ Len(written) >= 2

\* C4: a run that is not dry returns success only if every batch of the
\* input was written, every step succeeded and close succeeded last; a
\* failure of close is the error of the run whatever was written before.
C4_NoPartialSuccess ==
    /\ (result.status = "ok" /\ ~opts.dry) =>
          /\ written = AllBatches
          /\ \A i \in 1..Len(log) : log[i].ok
          /\ log[Len(log)] = Call("close", TRUE)
    /\ (\E i \in 1..Len(log) : log[i] = Call("close", FALSE)) =>
          result = Err(entry, "close")

C4_Witness ==
    /\ Done
    /\ log[Len(log)] = Call("close", FALSE)
    /\ Len(written) >= 1
    /\ written = AllBatches
    /\ result.status = "err"

\* C5: the first failing step is the last step of the run: the run is over,
\* its result is the error of that step, and no step follows it (no batch is
\* pulled, none is written, nothing is retried); a run that returns an
\* error returns the error of its last step.
C5_FirstErrorEndsRun ==
    /\ \A i \in 1..Len(log) :
          ~log[i].ok =>
              /\ i = Len(log)
              /\ Done
              /\ result = Err(entry, log[i].op)
    /\ result.status = "err" => (Len(log) > 0 /\ ~log[Len(log)].ok)

C5_Witness ==
    /\ log # <<>>
    /\ log[Len(log)] = Call("write", FALSE)
    /\ Len(written) >= 2
    /\ Len(produced) < NumBatches(fmt, opts, input)
    /\ result = Err(entry, "write")


\* C6: when a schema file is configured the inference routine is never
\* called and no line of the input is read during resolution, for CSV and
\* JSON input alike, and the resolved schema is the one of the document,
\* whatever the content of the input.
C6_OverrideBypassesInference ==
    opts.schema_file =>
        /\ inferArgs = <<>>
        /\ inferReads = 0
        /\ Calls("infer") = {}
        /\ (pc \notin {"parse", "open_input", "resolve"} /\ schemaFile.status = "ok") =>
              schema = schemaFile.schema

C6_Witness ==
    /\ opts.schema_file
    /\ fmt = "json"
    /\ pc = "report"
    /\ schemaFile.status = "ok"
    /\ Len(schema) # input.width
    /\ \E i \in 1..Len(input.lines) : input.lines[i][1] = "int"

\* C7 (as claimed): with a schema file configured, run() fails with IoError
\* when the file cannot be opened and with a schema parse error, not
\* IoError, when the document is not JSON or is not a schema; no line of
\* the input has been read by then.
C7_OverrideErrorKinds ==
    (entry = "run" /\ opts.schema_file /\ Done) =>
        /\ schemaFile.status = "missing" => result.kind = "IoError"
        /\ schemaFile.status \in {"badjson", "badschema"} =>
              (result.kind = "ParseError" /\ result.kind # "IoError")
        /\ schemaFile.status # "ok" => (result.status = "err" /\ inferReads = 0)

\* The writer options the command line left out, as the properties they set.
AbsentProps(e, w) ==
    {f \in {"compression", "encoding", "data_pagesize_limit",
            "dictionary_pagesize_limit", "write_batch_size", "max_row_group_size",
            "created_by", "max_statistics_size"} : w[f] = None}
    \cup (IF w.dictionary THEN {} ELSE {"dictionary_enabled"})
    \cup (IF e = "run" /\ w.statistics = None THEN {"statistics_enabled"} ELSE {})
    \cup (IF e = "main" /\ ~w.statistics_flag THEN {"statistics_enabled"} ELSE {})

\* C8 (as claimed): every writer property whose option the user did not
\* supply is left to the library by the writer that is opened: no setter is
\* called for it with false, zero or an empty value.
C8_AbsentOptionLeftToLibrary ==
    WriterOpened => \A f \in AbsentProps(entry, wopts) : props[f] = None

\* C9: inference receives the cap as configured: an absent cap as absent
\* (all rows), a cap of zero as zero.  With a cap of zero every column of
\* the inferred schema is text whatever the input holds; with a cap of at
\* least the number of records the schema is the one inferred without cap.
C9_CapZeroIsNotAbsent ==
    (~opts.schema_file /\ Happened("open_input") /\ pc # "resolve") =>
        /\ inferArgs = <<opts.max_read_records>>
        /\ Happened("infer") =>
              /\ opts.max_read_records = Some(0) =>
                    \A c \in 1..Len(schema) : schema[c].type = "Utf8"
              /\ (/\ IsSome(opts.max_read_records)
                  /\ Unwrap(opts.max_read_records)
                        >= Len(DataLines(input, HasHeader(fmt, opts)))) =>
                    schema = InferFileSchema(fmt, opts, input, None)

C9_Witness ==
    /\ ~opts.schema_file
    /\ opts.max_read_records = Some(0)
    /\ Happened("infer")
    /\ Len(schema) = MaxCols
    /\ \A c \in 1..Len(schema) : schema[c].type = "Utf8"
    /\ \E c \in 1..Len(schema) :
          InferFileSchema(fmt, opts, input, None)[c].type = "Int64"

\* C10: when print-schema or dry is set the resolved schema is printed
\* exactly once, after resolution has succeeded and before the reader, the
\* output file and the writer are made; a dry run then ends in success
\* without reading or writing a batch, a run with print-schema alone goes on
\* to the conversion.  Without either flag nothing is printed.
C10_SchemaPrintedOnceBeforeOutput ==
    /\ Len(emitted) = Cardinality(Calls("emit"))
    /\ Len(emitted) <= 1
    /\ (Resolved /\ pc # "report") =>
          Len(emitted) = (IF opts.print_schema \/ opts.dry THEN 1 ELSE 0)
    /\ \A i \in Calls("emit") :
          /\ emitted = <<SchemaToJson(schema)>>
          /\ \E j \in 1..(i - 1) : log[j] \in {Call("infer", TRUE), Call("parse_schema", TRUE)}
          /\ \A j \in 1..(i - 1) : log[j].op \notin OutputSteps \cup {"make_reader"}
          /\ opts.dry => (Done /\ result = Ok /\ i = Len(log)
                          /\ produced = <<>> /\ ~outputCreated)
          /\ (~opts.dry /\ i = Len(log)) => (pc = "make_reader" /\ result = Running)
    /\ \A i \in Calls("create_output") \cup Calls("new_writer") :
          (opts.print_schema \/ opts.dry) => \E j \in 1..(i - 1) : log[j].op = "emit"

C10_Witness ==
    /\ opts.print_schema
    /\ ~opts.dry
    /\ Len(emitted) = 1
    /\ WriterOpened
    /\ Len(written) >= 1


\* A schema file was used and its column count is not the width of the
\* lines of the input.
Mismatch ==
    /\ opts.schema_file
    /\ schemaFile.status = "ok"
    /\ Len(schemaFile.schema) # input.width

ResolutionSites == {"open_schema", "read_schema", "parse_schema", "infer"}

\* C11 (as claimed): with a schema file whose column count is not the width
\* of the input, the run does not succeed and the first call of write
\* fails, on the mismatch.
C11_FirstWriteFailsOnMismatch ==
    Mismatch =>
        /\ (Done /\ NumBatches(fmt, opts, input) > 0 /\ ~opts.dry) => result.status = "err"
        /\ written # <<>> =>
              /\ ~Happened("write")
              /\ Len(written) = 1
              /\ result = Err(entry, "write")
              /\ ~WriterAccepts(batchCols[written[1]], schema)

\* C11 (amended): with a schema file whose column count C is not the width
\* of the input, resolution succeeds with the schema of the document, and
\* the reader, bound to that schema, hands to write only batches of C
\* columns, the columns of the writer's schema: no call of write meets a
\* batch of another shape, and no error of the run comes from resolution.
C11_MismatchNeverReachesWriter ==
    Mismatch =>
        /\ Happened("parse_schema")
        /\ schema = schemaFile.schema
        /\ \A i \in 1..Len(batchCols) : batchCols[i] = Len(schemaFile.schema)
        /\ \A i \in 1..Len(written) : WriterAccepts(batchCols[written[i]], schema)
        /\ result.status = "err" => result.site \notin ResolutionSites

C11_Witness ==
    /\ Mismatch
    /\ Done
    /\ result = Ok
    /\ Len(written) >= 2
    /\ Len(schema) > input.width


\* The steps of a run that come before the creation of the output file.
EarlierSites == {"open_input", "make_reader"} \cup ResolutionSites

\* C12: the output path is created or truncated only after the input was
\* opened, the schema resolved, the schema printed if that was asked for and
\* the reader built, all with success and in that order; a run that fails
\* at one of those steps leaves the output path untouched; a run that fails
\* at the construction of the writer has created or truncated it already.
C12_OutputCreatedLast ==
    /\ outputCreated <=> Happened("create_output")
    /\ \A i \in Calls("create_output") :
          /\ \A j \in 1..(i - 1) : log[j].ok
          /\ \E j \in 1..(i - 1) : log[j].op = "open_input"
          /\ \E j \in 1..(i - 1) : log[j].op \in {"infer", "parse_schema"}
          /\ \E j \in 1..(i - 1) : log[j].op = "make_reader"
          /\ (opts.print_schema \/ opts.dry) => \E j \in 1..(i - 1) : log[j].op = "emit"
          /\ \A j \in 1..(i - 1) : log[j].op \notin OutputSteps
    /\ (result.status = "err" /\ result.site \in EarlierSites) => ~outputCreated
    /\ (result.status = "err" /\ result.site = "new_writer") => outputCreated

C12_Witness ==
    /\ result = Err(entry, "new_writer")
    /\ outputCreated
    /\ opts.print_schema
    /\ Len(emitted) = 1
    /\ written = <<>>

\* A run that failed at the construction of the reader: the output path is
\* untouched.
C12_WitnessEarlier ==
    /\ result = Err(entry, "make_reader")
    /\ ~outputCreated

====
